---- MODULE Spec2Model ----
(***************************************************************************)
(* A model of ToobUnlimited's station naming and network growth:           *)
(*   src/utils.py, src/Naming/StationNameGenerator.py,                     *)
(*   src/Network/Network.py, NetworkLine.py, NetworkContainerSuper.py.     *)
(*                                                                         *)
(* Conventions.                                                            *)
(*  - A Python str is a sequence of one-character strings.                 *)
(*  - A Python int that may exceed 32-bit TLC integers (the user seed)     *)
(*    is a sequence of decimal digits 0..9 without leading zeros.          *)
(*  - Optional[T] is a sequence of length 0 (None) or 1 (the value).       *)
(*  - A weight (a Python float) is the exact fraction <<num, den>> in      *)
(*    lowest terms; float rounding is not modelled.                        *)
(*  - random.Random(seed) is a deterministic function of its seed whose    *)
(*    values are unknown: a draw is any outcome of non-zero weight, and    *)
(*    where determinism matters the draws are remembered per seed.         *)
(***************************************************************************)
EXTENDS Integers, Sequences, FiniteSets, TLC

VARIABLES
    \* StationNameGenerator.__init__, the seed loop
    user_seed,          \* the argument user_seed
    long_seed,          \* the local long_seed
    seed_checked,       \* the local seed_checked
    userseed,           \* self.userseed: <<>> until assigned, then <<digits>>
    \* StationNameGenerator
    name_parts,                         \* self.name_parts
    nameshape_weights_prefix,           \* self.nameshape_weights_prefix
    nameshape_weights_latter_suffix,    \* self.nameshape_weights_latter_suffix
    nameshape_weights_double_letter,    \* self.nameshape_weights_double_letter
    gen_call,                           \* the last call on the generator and its result
    \* Network
    station_names,      \* self.station_names
    nodes,              \* the nodes of the graph, in the order add_node added them
    rng_memo,           \* what generate_names returned, per (n, num_names)
    net_call,           \* the last growth call and its result
    \* NetworkLine
    lines,              \* the NetworkLine objects constructed, in order
    line_call,          \* the last call that constructs a line and its result
    \* NetworkContainerSuper
    cs_objects,         \* the containers constructed and alive: id -> its fields
    cs_adds             \* id -> the items add_content was called with on it, in order

seedVars == <<user_seed, long_seed, seed_checked, userseed>>
genVars == <<name_parts, nameshape_weights_prefix, nameshape_weights_latter_suffix,
             nameshape_weights_double_letter, gen_call>>
netVars == <<station_names, nodes, rng_memo, net_call>>
lineVars == <<lines, line_call>>
contVars == <<cs_objects, cs_adds>>
vars == <<seedVars, genVars, netVars, lineVars, contVars>>

-----------------------------------------------------------------------------
(* Bounds of the model *)

\* the longest user seed tried, in decimal digits
MaxSeedDigits == 12
\* the largest weight an update supplies
MaxWeight == 1
\* the largest num_names of one generate_names call
MaxNames == 1
\* the largest secondary seed n of one generate_names call
MaxN == 1
\* the largest num_stations of one growth call
MaxCount == 3
\* the most stations a network is grown to
MaxStations == 4

-----------------------------------------------------------------------------
(* Python values *)

None == <<>>
Some(v) == <<v>>

RECURSIVE Gcd(_, _)
Gcd(a, b) == IF b = 0 THEN a ELSE Gcd(b, a % b)

RECURSIVE SumSeq(_)
SumSeq(s) == IF s = <<>> THEN 0 ELSE Head(s) + SumSeq(Tail(s))

\* the elements of a sequence
Range(s) == {s[i] : i \in 1..Len(s)}

LowerLetters == <<"a","b","c","d","e","f","g","h","i","j","k","l","m",
                  "n","o","p","q","r","s","t","u","v","w","x","y","z">>
UpperLetters == <<"A","B","C","D","E","F","G","H","I","J","K","L","M",
                  "N","O","P","Q","R","S","T","U","V","W","X","Y","Z">>

\* str.upper and str.lower on one character
upper(c) == IF \E i \in 1..26 : LowerLetters[i] = c
            THEN UpperLetters[CHOOSE i \in 1..26 : LowerLetters[i] = c] ELSE c
lower(c) == IF \E i \in 1..26 : UpperLetters[i] = c
            THEN LowerLetters[CHOOSE i \in 1..26 : UpperLetters[i] = c] ELSE c

\* str.capitalize: the first character upper-cased, the others lower-cased
capitalize(s) == [i \in 1..Len(s) |-> IF i = 1 THEN upper(s[i]) ELSE lower(s[i])]

\* the slice s[1:-1]
slice_1_m1(s) == IF Len(s) <= 2 THEN <<>> ELSE SubSeq(s, 2, Len(s) - 1)

\* str.split("\n") of one line of a file
RECURSIVE split_nl(_)
split_nl(s) ==
    IF \E i \in 1..Len(s) : s[i] = "\n"
    THEN LET i == CHOOSE j \in 1..Len(s) : s[j] = "\n" /\ \A k \in 1..(j-1) : s[k] # "\n"
         IN <<SubSeq(s, 1, i - 1)>> \o split_nl(SubSeq(s, i + 1, Len(s)))
    ELSE <<s>>

-----------------------------------------------------------------------------
(* StationNameGenerator.__init__: the user seed is made at least 12 digits  *)
(* long                                                                     *)

DigitChars == <<"0","1","2","3","4","5","6","7","8","9">>

\* str(x) of a non-negative int
str(x) == [i \in 1..Len(x) |-> DigitChars[x[i] + 1]]

RECURSIVE StripZeros(_)
StripZeros(d) == IF Len(d) > 1 /\ Head(d) = 0 THEN StripZeros(Tail(d)) ELSE d

\* int(s) of a string of decimal digits: leading zeros carry no value
int(s) == StripZeros([i \in 1..Len(s) |->
                        (CHOOSE k \in 1..10 : DigitChars[k] = s[i]) - 1])

\* a > b on ints
RECURSIVE LexGreater(_, _)
LexGreater(a, b) ==
    IF a = <<>> THEN FALSE
    ELSE IF Head(a) # Head(b) THEN Head(a) > Head(b)
    ELSE LexGreater(Tail(a), Tail(b))
GreaterThan(a, b) ==
    \/ Len(a) > Len(b)
    \/ Len(a) = Len(b) /\ LexGreater(a, b)

\* the literal 99999999999
SeedThreshold == <<9,9,9,9,9,9,9,9,9,9,9>>

\* the digits the seeds tried are written with
SeedDigits == {0, 7}

\* the non-negative ints of at most MaxSeedDigits digits written with SeedDigits
Seeds == {d \in UNION {[1..n -> SeedDigits] : n \in 1..MaxSeedDigits} : StripZeros(d) = d}

SeedInit ==
    /\ user_seed \in Seeds
    /\ long_seed = user_seed
    /\ seed_checked = FALSE
    /\ userseed = None

\* one pass of `while not seed_checked`
SeedLoop ==
    /\ ~seed_checked
    /\ userseed = None
    /\ IF GreaterThan(long_seed, SeedThreshold)
       THEN seed_checked' = TRUE /\ long_seed' = long_seed
       ELSE seed_checked' = FALSE /\ long_seed' = int(str(long_seed) \o str(long_seed))
    /\ UNCHANGED <<user_seed, userseed>>

\* self.userseed = long_seed
SeedStore ==
    /\ seed_checked
    /\ userseed = None
    /\ userseed' = Some(long_seed)
    /\ UNCHANGED <<user_seed, long_seed, seed_checked>>


\* a generator whose construction has completed, with the seed 7
SeedIdle ==
    /\ user_seed = <<7>>
    /\ long_seed = [i \in 1..16 |-> 7]
    /\ seed_checked = TRUE
    /\ userseed = Some(long_seed)

-----------------------------------------------------------------------------
(* StationNameGenerator: the part tables and the weights                    *)

\* the part-list files, one str per line of the file
GenPartFiles ==
    [prefix |-> << <<"n","o","r","t","h","\n">> >>,
     former |-> << <<"l","u","\n">>, <<"a","n","\n">> >>,
     latter |-> << <<"u","t","o","n","\n">>, <<"n","\n">>, <<"n","y">> >>,
     suffix |-> << <<"b","r","i","d","g","e","\n">> >>]

required_keys == <<"prefix", "former", "latter", "suffix">>

\* self.name_parts: for each key, fline.split("\n") of each line of its file
load_name_parts(files) ==
    [k \in Range(required_keys) |->
        [i \in 1..Len(files[k]) |-> split_nl(files[k][i])]]

\* the fraction n/d in lowest terms, for n >= 0 and d > 0
Frac(n, d) == LET g == Gcd(n, d) IN <<n \div g, d \div g>>

DefaultWeightsPrefix == <<Frac(8, 10), Frac(2, 10)>>
DefaultWeightsLatterSuffix == <<Frac(80, 100), Frac(15, 100), Frac(5, 100)>>
DefaultWeightsDoubleLetter == <<Frac(5, 10), Frac(5, 10)>>

\* tuple([i / sum for i in weights]) for a tuple of ints of non-zero sum
Normalise(weights) == [i \in 1..Len(weights) |-> Frac(weights[i], SumSeq(weights))]

\* update_weights(prefix_weights, latter_weights, double_weights) on the weights
\* <<wp, wls, wd>>: the three `if` statements in order; a division by a zero sum
\* raises ZeroDivisionError and leaves the assignments made before it in place
update_weights_result(wp, wls, wd, prefix_weights, latter_weights, double_weights) ==
    LET r0 == [prefix |-> wp, latter_suffix |-> wls, double_letter |-> wd,
               outcome |-> "return"]
        r1 == IF prefix_weights = None THEN r0
              ELSE IF SumSeq(prefix_weights[1]) = 0
                   THEN [r0 EXCEPT !.outcome = "ZeroDivisionError"]
                   ELSE [r0 EXCEPT !.prefix = Normalise(prefix_weights[1])]
        r2 == IF r1.outcome # "return" \/ latter_weights = None THEN r1
              ELSE IF SumSeq(latter_weights[1]) = 0
                   THEN [r1 EXCEPT !.outcome = "ZeroDivisionError"]
                   ELSE [r1 EXCEPT !.latter_suffix = Normalise(latter_weights[1])]
        r3 == IF r2.outcome # "return" \/ double_weights = None THEN r2
              ELSE IF SumSeq(double_weights[1]) = 0
                   THEN [r2 EXCEPT !.outcome = "ZeroDivisionError"]
                   ELSE [r2 EXCEPT !.latter_suffix = Normalise(double_weights[1])]
    IN r3

\* Optional[tuple] arguments of n weights each in 0..MaxWeight
WeightArgs(n) == {None} \cup {Some(t) : t \in [1..n -> 0..MaxWeight]}

update_weights(prefix_weights, latter_weights, double_weights) ==
    LET r == update_weights_result(nameshape_weights_prefix,
                                   nameshape_weights_latter_suffix,
                                   nameshape_weights_double_letter,
                                   prefix_weights, latter_weights, double_weights)
    IN /\ nameshape_weights_prefix' = r.prefix
       /\ nameshape_weights_latter_suffix' = r.latter_suffix
       /\ nameshape_weights_double_letter' = r.double_letter
       /\ gen_call' = [op |-> "update_weights",
                       prefix_weights |-> prefix_weights,
                       latter_weights |-> latter_weights,
                       double_weights |-> double_weights,
                       outcome |-> r.outcome]
       /\ UNCHANGED name_parts

-----------------------------------------------------------------------------
(* StationNameGenerator.generate_names                                      *)

\* src.utils.new_seed raises ValueError for a secondary seed of 0
new_seed_raises(secondary_seed) == secondary_seed = 0

\* rngenerator.choices(population, weights, k) raises ValueError when the
\* number of weights is not the size of the population
choices_raises(population, weights) == Len(weights) # Len(population)

\* the values one draw of rngenerator.choices(population, weights) can have:
\* those of non-zero weight
choices_outcomes(population, weights) ==
    {population[i] : i \in {j \in 1..Len(population) : weights[j][1] > 0}}

PopulationPrefix == <<FALSE, TRUE>>
PopulationLatterSuffix == <<"just_latter", "both", "just_suffix">>
PopulationDoubleLetter == <<TRUE, FALSE>>

\* the `match j` statement
use_latter(j) == j \in {"just_latter", "both"}
use_suffix(j) == j \in {"just_suffix", "both"}

\* the draws made for one name: the three shape choices, the former, and the
\* entries chosen from the prefix, latter and suffix tables (0: none is drawn)
NameDraws(parts, wp, wls, wd) ==
    {d \in [use_prefix : choices_outcomes(PopulationPrefix, wp),
            use_latter_suffix : choices_outcomes(PopulationLatterSuffix, wls),
            use_double_letters : choices_outcomes(PopulationDoubleLetter, wd),
            former : 1..Len(parts.former),
            prefix : 0..Len(parts.prefix),
            latter : 0..Len(parts.latter),
            suffix : 0..Len(parts.suffix)] :
        /\ (d.prefix # 0) = d.use_prefix
        /\ (d.latter # 0) = use_latter(d.use_latter_suffix)
        /\ (d.suffix # 0) = use_suffix(d.use_latter_suffix)}

\* prefixes[i], formers[i], latters[i] and suffixes[i] of the name with draws d
prefix_of(parts, d) ==
    IF d.use_prefix THEN Some(parts.prefix[d.prefix][1]) ELSE None
former_of(parts, d) == parts.former[d.former][1]
chosen_latter_of(parts, d) == parts.latter[d.latter][1]
latter_of(parts, d) ==
    IF use_latter(d.use_latter_suffix)
    THEN LET chosen_latter == chosen_latter_of(parts, d)
             former == former_of(parts, d)
         IN IF (~d.use_double_letters) /\ chosen_latter[1] = former[Len(former)]
            THEN Some(slice_1_m1(chosen_latter))
            ELSE Some(chosen_latter)
    ELSE None
suffix_of(parts, d) ==
    IF use_suffix(d.use_latter_suffix) THEN Some(parts.suffix[d.suffix][1]) ELSE None

_construct_station_name(prefix, former, latter, suffix) ==
    LET s1 == IF prefix # None THEN capitalize(prefix[1]) \o <<" ">> ELSE <<>>
        s2 == s1 \o capitalize(former)
        s3 == IF latter # None THEN s2 \o latter[1] ELSE s2
        s4 == IF suffix # None THEN s3 \o <<" ">> \o capitalize(suffix[1]) ELSE s3
    IN s4

\* the name made from the draws d
name_of(parts, d) ==
    _construct_station_name(prefix_of(parts, d), former_of(parts, d),
                            latter_of(parts, d), suffix_of(parts, d))

\* the results generate_names(n, num_names) can have
generate_names_results(parts, wp, wls, wd, n, num_names) ==
    IF \/ new_seed_raises(n)
       \/ choices_raises(PopulationPrefix, wp)
       \/ choices_raises(PopulationLatterSuffix, wls)
       \/ choices_raises(PopulationDoubleLetter, wd)
    THEN {[outcome |-> "ValueError", draws |-> <<>>, prefixes |-> <<>>,
           formers |-> <<>>, latters |-> <<>>, suffixes |-> <<>>, names |-> <<>>]}
    ELSE {[outcome |-> "return",
           draws |-> ds,
           prefixes |-> [i \in 1..num_names |-> prefix_of(parts, ds[i])],
           formers |-> [i \in 1..num_names |-> former_of(parts, ds[i])],
           latters |-> [i \in 1..num_names |-> latter_of(parts, ds[i])],
           suffixes |-> [i \in 1..num_names |-> suffix_of(parts, ds[i])],
           names |-> [i \in 1..num_names |-> name_of(parts, ds[i])]] :
          ds \in [1..num_names -> NameDraws(parts, wp, wls, wd)]}

generate_names(n, num_names) ==
    /\ \E r \in generate_names_results(name_parts, nameshape_weights_prefix,
                                       nameshape_weights_latter_suffix,
                                       nameshape_weights_double_letter, n, num_names) :
          gen_call' = [op |-> "generate_names", n |-> n, num_names |-> num_names,
                       result |-> r]
    /\ UNCHANGED <<name_parts, nameshape_weights_prefix,
                   nameshape_weights_latter_suffix, nameshape_weights_double_letter>>

\* no line constructed
LineIdle ==
    /\ lines = <<>>
    /\ line_call = [op |-> "none"]

\* no container constructed
ContIdle ==
    /\ cs_objects = <<>>
    /\ cs_adds = <<>>

\* a network on which nothing is called
NetIdle ==
    /\ station_names = <<>>
    /\ nodes = <<>>
    /\ rng_memo = <<>>
    /\ net_call = [op |-> "__init__"]

\* the generator after __init__ on the part-list files
GenInitOn(files) ==
    /\ name_parts = load_name_parts(files)
    /\ nameshape_weights_prefix = DefaultWeightsPrefix
    /\ nameshape_weights_latter_suffix = DefaultWeightsLatterSuffix
    /\ nameshape_weights_double_letter = DefaultWeightsDoubleLetter
    /\ gen_call = [op |-> "__init__"]

GenInit == GenInitOn(GenPartFiles) /\ SeedIdle /\ NetIdle /\ LineIdle /\ ContIdle

GenUpdate ==
    /\ \E p \in WeightArgs(2), l \in WeightArgs(3), d \in WeightArgs(2) :
          update_weights(p, l, d)
    /\ UNCHANGED <<seedVars, netVars, lineVars, contVars>>

GenGenerate ==
    /\ \E n \in 0..MaxN, num_names \in 0..MaxNames : generate_names(n, num_names)
    /\ UNCHANGED <<seedVars, netVars, lineVars, contVars>>

GenNext == GenUpdate \/ GenGenerate

SpecGen == GenInit /\ [][GenNext]_vars

\* C2: an update that returns changes only the distributions it is given: each
\* of the three is unchanged when its argument is None, and holds the
\* normalised argument, stored in that distribution and no other, when not.
C2_UpdateChangesOnlySupplied ==
    [][(gen_call'.op = "update_weights" /\ gen_call'.outcome = "return") =>
        /\ nameshape_weights_prefix' =
              IF gen_call'.prefix_weights = None THEN nameshape_weights_prefix
              ELSE Normalise(gen_call'.prefix_weights[1])
        /\ nameshape_weights_latter_suffix' =
              IF gen_call'.latter_weights = None THEN nameshape_weights_latter_suffix
              ELSE Normalise(gen_call'.latter_weights[1])
        /\ nameshape_weights_double_letter' =
              IF gen_call'.double_weights = None THEN nameshape_weights_double_letter
              ELSE Normalise(gen_call'.double_weights[1])]_vars

\* the letters that never double (module comment, lines 19-22)
ForcedLetters == {"a", "h", "i", "j", "q", "u", "v", "w", "x", "y"}

\* C4: for every name with a latter drawn, the latter loses its first and last
\* characters exactly when its first character repeats the last of the former
\* and either that letter is one of a, h, i, j, q, u, v, w, x, y or the policy
\* drawn for the name is suppress-repeat.
C4_ForcedSuppression ==
    (gen_call.op = "generate_names" /\ gen_call.result.outcome = "return") =>
        \A i \in 1..gen_call.num_names :
            LET d == gen_call.result.draws[i]
                chosen_latter == chosen_latter_of(name_parts, d)
                former == former_of(name_parts, d)
                repeated == chosen_latter[1] = former[Len(former)]
                strip == repeated /\ (chosen_latter[1] \in ForcedLetters
                                      \/ ~d.use_double_letters)
            IN use_latter(d.use_latter_suffix) =>
                 gen_call.result.latters[i] =
                    Some(IF strip THEN slice_1_m1(chosen_latter) ELSE chosen_latter)

\* C9: every name returned has, after its former, a non-empty latter or a
\* suffix or both, and so is never the former alone (with or without a prefix).
C9_NameShape ==
    (gen_call.op = "generate_names" /\ gen_call.result.outcome = "return") =>
        \A i \in 1..gen_call.num_names :
            LET r == gen_call.result
            IN /\ \/ r.latters[i] # None /\ r.latters[i][1] # <<>>
                  \/ r.suffixes[i] # None
               /\ r.names[i] # _construct_station_name(r.prefixes[i], r.formers[i],
                                                       None, None)

-----------------------------------------------------------------------------
(* Network: growth by disconnected stations                                 *)

\* the part-list files of the network
NetPartFiles ==
    [prefix |-> << <<"n","o","r","t","h","\n">> >>,
     former |-> << <<"a","c","\n">> >>,
     latter |-> << <<"t","o","n","\n">> >>,
     suffix |-> << <<"b","r","i","d","g","e","\n">> >>]

\* a station object made from a display name
NetworkStation(name) == [name |-> name]

\* [i in generated_names[:i] for i in range(num_names)], line 77
intra_repeats_of(generated_names) ==
    [i \in 1..Len(generated_names) |->
        \E j \in 1..(i - 1) : generated_names[j] = generated_names[i]]

\* [i in self.station_names for i in generated_names], line 80
inter_repeats_of(generated_names, st_names) ==
    [i \in 1..Len(generated_names) |-> generated_names[i] \in Range(st_names)]

\* [i or j for i, j in zip(intra_repeats, inter_repeats)], line 81
repeats_of(generated_names, st_names) ==
    [i \in 1..Len(generated_names) |->
        \/ intra_repeats_of(generated_names)[i]
        \/ inter_repeats_of(generated_names, st_names)[i]]

\* repeats.count(True)
count_true(repeats) == Cardinality({i \in 1..Len(repeats) : repeats[i]})

\* lines 90-98, with the replacement names in hand: `for i in len(generated_names)`
\* iterates over an int, which raises TypeError before the first pass
splice_result(generated_names, repeats, new_names) ==
    [outcome |-> "TypeError", names |-> <<>>]

\* what sn_gen.generate_names(n, num_names) returns: a function of the seed
\* derived from n and of num_names, so a pair asked before answers as before
names_results(gen, memo, n, num_names) ==
    IF <<n, num_names>> \in DOMAIN memo
    THEN {memo[<<n, num_names>>]}
    ELSE {[outcome |-> r.outcome, names |-> r.names] :
            r \in generate_names_results(gen.parts, gen.wp, gen.wls, gen.wd,
                                         n, num_names)}

\* the results of self._generate_station_names(num_names) on a network with the
\* station names st_names. A recursive request for as many names as this one,
\* with st_names as it was, is this request again: the recursion has no end and
\* Python raises RecursionError.
RECURSIVE _generate_station_names(_, _, _, _)
_generate_station_names(gen, memo, st_names, num_names) ==
    LET n == Len(st_names) + 1
    IN UNION {
        LET memo1 == (<<n, num_names>> :> g) @@ memo
            generated_names == g.names
            repeats == repeats_of(generated_names, st_names)
            num_new_required == count_true(repeats)
            top == [outcome |-> g.outcome, names |-> <<>>, memo |-> memo1,
                    generated_names |-> generated_names, repeats |-> repeats,
                    new_names |-> None]
        IN IF g.outcome # "return" THEN {top}
           ELSE IF num_new_required = 0
                THEN {[top EXCEPT !.names = generated_names]}
           ELSE IF num_new_required = num_names
                THEN {[top EXCEPT !.outcome = "RecursionError"]}
           ELSE {IF sub.outcome # "return"
                 THEN [top EXCEPT !.outcome = sub.outcome, !.memo = sub.memo]
                 ELSE LET s == splice_result(generated_names, repeats, sub.names)
                      IN [top EXCEPT !.outcome = s.outcome, !.names = s.names,
                                     !.memo = sub.memo,
                                     !.new_names = Some(sub.names)] :
                 sub \in _generate_station_names(gen, memo1, st_names,
                                                 num_new_required)}
        : g \in names_results(gen, memo, n, num_names)}

\* self.sn_gen as the network holds it
sn_gen == [parts |-> name_parts, wp |-> nameshape_weights_prefix,
           wls |-> nameshape_weights_latter_suffix,
           wd |-> nameshape_weights_double_letter]

\* self.station_names after the names new_names were committed as stations:
\* no statement of Network appends to it
station_names_after(st_names, new_names) == st_names

\* the nodes after `for i in new_names: self.add_node(NetworkStation(i))`:
\* every station is a new object, so every add_node adds a node
nodes_after(nds, new_names) ==
    nds \o [i \in 1..Len(new_names) |-> NetworkStation(new_names[i])]

generate_disconnected_stations(num_stations) ==
    /\ Len(nodes) + num_stations <= MaxStations
    /\ \E r \in _generate_station_names(sn_gen, rng_memo, station_names, num_stations) :
        /\ rng_memo' = r.memo
        /\ nodes' = IF r.outcome = "return" THEN nodes_after(nodes, r.names) ELSE nodes
        /\ station_names' = IF r.outcome = "return"
                            THEN station_names_after(station_names, r.names)
                            ELSE station_names
        /\ net_call' = [op |-> "generate_disconnected_stations",
                        num_stations |-> num_stations,
                        station_names |-> station_names,
                        outcome |-> r.outcome,
                        names |-> r.names,
                        generated_names |-> r.generated_names,
                        repeats |-> r.repeats,
                        new_names |-> r.new_names]

\* the generator of the network: made by __init__, then set by
\* update_weights((1, 0), None, None) to draw no prefix
NetGenInit ==
    LET w == update_weights_result(DefaultWeightsPrefix, DefaultWeightsLatterSuffix,
                                   DefaultWeightsDoubleLetter,
                                   Some(<<1, 0>>), None, None)
    IN /\ name_parts = load_name_parts(NetPartFiles)
       /\ nameshape_weights_prefix = w.prefix
       /\ nameshape_weights_latter_suffix = w.latter_suffix
       /\ nameshape_weights_double_letter = w.double_letter
       /\ gen_call = [op |-> "update_weights"]

Init == SeedIdle /\ NetGenInit /\ NetIdle /\ LineIdle /\ ContIdle

Grow ==
    /\ \E num_stations \in 0..MaxCount : generate_disconnected_stations(num_stations)
    /\ UNCHANGED <<seedVars, genVars, lineVars, contVars>>

Next == Grow

Spec == Init /\ [][Next]_vars

\* the names of the stations the network holds, in the order they were added
node_names == [i \in 1..Len(nodes) |-> nodes[i].name]

\* the names generate_names can make from the network's tables and weights
NamePool ==
    {r.names[1] : r \in generate_names_results(name_parts, nameshape_weights_prefix,
                                               nameshape_weights_latter_suffix,
                                               nameshape_weights_double_letter, 1, 1)}

\* C1: after any sequence of growth calls, no two stations of the network have
\* the same display name.
C1_UniqueStationNames ==
    \A i, j \in 1..Len(nodes) : i # j => nodes[i].name # nodes[j].name

\* C6: the station-name list holds exactly the display names of the stations of
\* the network, one per station, so that its length is the number of stations
\* created so far.
C6_StationNamesTrackStations ==
    /\ Len(station_names) = Len(nodes)
    /\ Range(station_names) = Range(node_names)

\* the number of repeats at the positions up to i
repeat_rank(repeats, i) == Cardinality({j \in 1..i : repeats[j]})

\* C7: a request whose candidate batch has r >= 1 repeats returns as many names
\* as were asked for, the clean positions holding their candidates and the
\* repeat positions the replacement names in the order the recursive request
\* returned them; with r = 0 it returns the candidate batch.
C7_RepeatResolution ==
    (net_call.op = "generate_disconnected_stations" /\ net_call.outcome # "ValueError") =>
        /\ net_call.outcome = "return"
        /\ Len(net_call.names) = net_call.num_stations
        /\ IF count_true(net_call.repeats) = 0
           THEN net_call.names = net_call.generated_names
           ELSE /\ net_call.new_names # None
                /\ \A i \in 1..net_call.num_stations :
                     net_call.names[i] =
                        IF net_call.repeats[i]
                        THEN net_call.new_names[1][repeat_rank(net_call.repeats, i)]
                        ELSE net_call.generated_names[i]

\* C8: a request for names on a network whose tables can still make that many
\* names not yet in the station-name list ends by returning.
C8_RetryReturns ==
    (/\ net_call.op = "generate_disconnected_stations"
     /\ Cardinality(NamePool \ Range(net_call.station_names)) >= net_call.num_stations)
        => net_call.outcome = "return"

-----------------------------------------------------------------------------
(* The construction of a StationNameGenerator, one pass of its seed loop at *)
(* a time                                                                   *)

\* the generator before __init__ has set its weights
GenUnset ==
    /\ name_parts = load_name_parts(GenPartFiles)
    /\ nameshape_weights_prefix = None
    /\ nameshape_weights_latter_suffix = None
    /\ nameshape_weights_double_letter = None
    /\ gen_call = [op |-> "none"]

SeedSpecInit == SeedInit /\ GenUnset /\ NetIdle /\ LineIdle /\ ContIdle

SeedLoopStep ==
    /\ SeedLoop
    /\ UNCHANGED <<genVars, netVars, lineVars, contVars>>

\* the statements of __init__ after the loop
SeedFinish ==
    /\ SeedStore
    /\ nameshape_weights_prefix' = DefaultWeightsPrefix
    /\ nameshape_weights_latter_suffix' = DefaultWeightsLatterSuffix
    /\ nameshape_weights_double_letter' = DefaultWeightsDoubleLetter
    /\ gen_call' = [op |-> "__init__"]
    /\ UNCHANGED <<name_parts, netVars, lineVars, contVars>>

SeedNext == SeedLoopStep \/ SeedFinish

SpecSeed == SeedSpecInit /\ [][SeedNext]_vars

\* __init__ runs on: a statement that can be executed is executed
FairSpecSeed == SpecSeed /\ WF_vars(SeedLoopStep) /\ WF_vars(SeedFinish)

\* the string s written k times
RECURSIVE Repeat(_, _)
Repeat(s, k) == IF k = 0 THEN <<>> ELSE s \o Repeat(s, k - 1)

\* the number of digits of the smallest int above the threshold
SeedMinDigits == Len(SeedThreshold) + 1

\* C3: construction completes for every seed, and the seed it caches is the
\* input itself when that has 12 digits or more, and otherwise has 12 digits
\* or more and is the input written a whole number of times.
C3_SeedNormalised ==
    /\ <>(userseed # None)
    /\ [](userseed # None =>
            IF Len(user_seed) >= SeedMinDigits
            THEN userseed[1] = user_seed
            ELSE /\ Len(userseed[1]) >= SeedMinDigits
                 /\ \E k \in 1..(2 * SeedMinDigits) :
                       str(userseed[1]) = Repeat(str(user_seed), k))

-----------------------------------------------------------------------------
(* NetworkLine, and growth by a new line                                    *)

\* the most lines constructed
MaxLines == 2
\* the largest count of one growNewLine call
MaxLineStations == 1

\* a range check that lets 256 through
colour_in_range_upto256(i) == 0 <= i /\ i <= 256

\* `0 <= i <= 255`
colour_in_range(i) == 0 <= i /\ i <= 255

\* NetworkLine(line_name, line_colour)
NetworkLine_init(line_name, line_colour) ==
    IF \E k \in 1..Len(line_colour) : ~colour_in_range(line_colour[k])
    THEN [outcome |-> "ValueError"]
    ELSE [outcome |-> "return", line |-> [name |-> line_name, colour |-> line_colour]]

\* the colour components tried: the ends of the range and their neighbours
ColourComponents == {-1, 0, 255, 256}

\* the colours tried: at most one component is not 0
Colours == {c \in [1..3 -> ColourComponents] : Cardinality({k \in 1..3 : c[k] # 0}) <= 1}

LineNames == {<<"l">>}

NewLine ==
    /\ Len(lines) < MaxLines
    /\ \E line_name \in LineNames, line_colour \in Colours :
        LET r == NetworkLine_init(line_name, line_colour)
        IN /\ lines' = IF r.outcome = "return" THEN Append(lines, r.line) ELSE lines
           /\ line_call' = [op |-> "NetworkLine", line_colour |-> line_colour,
                            outcome |-> r.outcome,
                            lines_before |-> lines, nodes_before |-> nodes]
    /\ UNCHANGED <<seedVars, genVars, netVars, contVars>>

\* growNewLine(count, lineName, lineColour): the new Line is constructed, then
\* count unique names are generated and added as nodes
growNewLine(count, line_name, line_colour) ==
    LET r == NetworkLine_init(line_name, line_colour)
    IN IF r.outcome # "return"
       THEN /\ line_call' = [op |-> "growNewLine", line_colour |-> line_colour,
                             outcome |-> r.outcome,
                             lines_before |-> lines, nodes_before |-> nodes]
            /\ UNCHANGED <<lines, netVars>>
       ELSE \E g \in _generate_station_names(sn_gen, rng_memo, station_names, count) :
            /\ lines' = Append(lines, r.line)
            /\ rng_memo' = g.memo
            /\ nodes' = IF g.outcome = "return" THEN nodes_after(nodes, g.names)
                        ELSE nodes
            /\ station_names' = IF g.outcome = "return"
                                THEN station_names_after(station_names, g.names)
                                ELSE station_names
            /\ line_call' = [op |-> "growNewLine", line_colour |-> line_colour,
                             outcome |-> g.outcome,
                             lines_before |-> lines, nodes_before |-> nodes]
            /\ UNCHANGED net_call

GrowNewLine ==
    /\ Len(lines) < MaxLines
    /\ \E count \in 0..MaxLineStations, line_name \in LineNames, line_colour \in Colours :
        /\ Len(nodes) + count <= MaxStations
        /\ growNewLine(count, line_name, line_colour)
    /\ UNCHANGED <<seedVars, genVars, contVars>>

LineNext == NewLine \/ GrowNewLine

SpecLine == Init /\ [][LineNext]_vars

\* C5: every line that exists has its three colour components in 0..255, and a
\* construction or a growNewLine with a component outside 0..255 raises
\* ValueError, yields no line and leaves the stations of the network as they
\* were.
C5_LineColourValid ==
    /\ \A i \in 1..Len(lines) : \A k \in 1..3 : lines[i].colour[k] \in 0..255
    /\ (/\ line_call.op \in {"NetworkLine", "growNewLine"}
        /\ \E k \in 1..3 : line_call.line_colour[k] \notin 0..255)
       => /\ line_call.outcome = "ValueError"
          /\ lines = line_call.lines_before
          /\ nodes = line_call.nodes_before

\* a growNewLine with the component 256 has failed on a network with stations
C5_Witness ==
    /\ line_call.op = "growNewLine"
    /\ \E k \in 1..3 : line_call.line_colour[k] = 256
    /\ line_call.outcome = "ValueError"
    /\ Len(nodes) > 0
    /\ Len(lines) > 0

-----------------------------------------------------------------------------
(* NetworkContainerSuper                                                    *)

\* the most containers constructed
MaxObjects == 2
\* the most entries of one contents or containers list
MaxContents == 2

\* an object, and the weak reference wr.ref(obj) to it
object(id) == [kind |-> "obj", id |-> id]
weakref(id) == [kind |-> "ref", id |-> id]

\* x == y for objects and weak references, the objects being those of
\* NetworkContainerSuper, which defines no __eq__: two live references are equal
\* when their referents are, anything else is equal only to itself; a
\* reference and an object are never equal
py_eq(x, y, alive) ==
    IF x.kind = "ref" /\ y.kind = "ref"
    THEN IF x.id \in alive /\ y.id \in alive THEN object(x.id) = object(y.id) ELSE x = y
    ELSE IF x.kind = "obj" /\ y.kind = "obj" THEN x.id = y.id
    ELSE FALSE

\* item in a list
py_in(item, list, alive) == \E k \in 1..Len(list) : py_eq(list[k], item, alive)

\* NetworkContainerSuper.__contains__
contains(self, item) == py_in(item, cs_objects[self].contents, DOMAIN cs_objects)

\* NetworkContainerSuper(name)
ContNew ==
    /\ Cardinality(DOMAIN cs_adds) < MaxObjects
    /\ LET id == Cardinality(DOMAIN cs_adds) + 1
       IN /\ cs_objects' = (id :> [name |-> <<"c">>, contents |-> <<>>,
                                   containers |-> <<>>]) @@ cs_objects
          /\ cs_adds' = (id :> <<>>) @@ cs_adds
    /\ UNCHANGED <<seedVars, genVars, netVars, lineVars>>

add_content(self, new_content) ==
    /\ cs_objects' = [cs_objects EXCEPT ![self].contents = Append(@, weakref(new_content))]
    /\ cs_adds' = [cs_adds EXCEPT ![self] = Append(@, new_content)]

add_container(self, new_container) ==
    /\ cs_objects' = [cs_objects EXCEPT
                         ![self].containers = Append(@, weakref(new_container))]
    /\ cs_adds' = cs_adds

ContAddContent ==
    /\ \E self \in DOMAIN cs_objects, new_content \in DOMAIN cs_objects :
        /\ Len(cs_objects[self].contents) < MaxContents
        /\ add_content(self, new_content)
    /\ UNCHANGED <<seedVars, genVars, netVars, lineVars>>

ContAddContainer ==
    /\ \E self \in DOMAIN cs_objects, new_container \in DOMAIN cs_objects :
        /\ Len(cs_objects[self].containers) < MaxContents
        /\ add_container(self, new_container)
    /\ UNCHANGED <<seedVars, genVars, netVars, lineVars>>

\* an object its owner has let go of is freed: the weak references in contents
\* and containers do not keep it
ContFree ==
    /\ \E id \in DOMAIN cs_objects :
        cs_objects' = [i \in DOMAIN cs_objects \ {id} |-> cs_objects[i]]
    /\ UNCHANGED <<cs_adds, seedVars, genVars, netVars, lineVars>>

ContNext == ContNew \/ ContAddContent \/ ContAddContainer \/ ContFree

ContInit == SeedIdle /\ NetGenInit /\ NetIdle /\ LineIdle /\ ContIdle

SpecCont == ContInit /\ [][ContNext]_vars

\* C10: for a container and an item, both alive, `item in container` is true
\* exactly when the item was added to the container, and the contents list has
\* one entry per add_content call.
C10_Membership ==
    \A c \in DOMAIN cs_objects :
        /\ Len(cs_objects[c].contents) = Len(cs_adds[c])
        /\ \A item \in DOMAIN cs_objects :
              contains(c, object(item)) <=> item \in Range(cs_adds[c])

====
